---- MODULE Spec2Model ----
(***************************************************************************)
(* Model of LicenseAgent (src/src/index.ts and its near-duplicate          *)
(* src/unnamed/part_002): a one-entry result cache, a TTL freshness window *)
(* and a grace-period fallback around a remote validation call.            *)
(*                                                                         *)
(* JavaScript objects are records; an absent key is a key that is not in   *)
(* the DOMAIN of the record.  The values undefined and null of a string    *)
(* field are the strings Undefined and Null.  Dates and Date.now() are     *)
(* integers (clock ticks).                                                 *)
(***************************************************************************)
EXTENDS Integers, Sequences, FiniteSets, Bags, TLC

\* ---------------------------------------------------------------- bounds
MaxTime == 4
MaxCallers == 2

\* ------------------------------------------------------- JavaScript values
Undefined == "undefined"
Null == "null"
NullDate == -1

\* JavaScript truthiness of a string-or-null-or-undefined value
Truthy(s) == s \notin {Undefined, Null, ""}

\* result.k is truthy, for a boolean field k that may be absent
Flag(r, k) == k \in DOMAIN r /\ r[k] = TRUE

\* { ...base, ...over }: keys of over win
Spread(base, over) == over @@ base

\* {}
EmptyObject == [k \in {} |-> Undefined]

\* object.k, which is undefined when the key is absent (string fields)
Field(object, k) == IF k \in DOMAIN object THEN object[k] ELSE Undefined

\* --------------------------------------------------------------- variants
\* the two copies of the agent in the repository
Impls == {"index", "part_002"}

\* ----------------------------------------------------------- test fixtures
ISO_DATE == "1970-01-01T00:00:00.009Z"

\* new Date(isoString).getTime()
DateParse(s) == IF s = ISO_DATE THEN 9 ELSE NullDate

BASE_CONFIG ==
    [serverUrl |-> "http:localhost:8080",
     apiKey |-> "prod_testprefix_testsecret",
     productName |-> "TestProduct",
     cacheTTL |-> 2, gracePeriod |-> 3, requestTimeout |-> 1]

DEFAULT_CACHE_TTL == 60 * 60 * 1000
DEFAULT_GRACE_PERIOD == 24 * 60 * 60 * 1000
DEFAULT_REQUEST_TIMEOUT == 10000

\* rs, and every record of rs with the optional key k set to v
Optional(rs, k, v) == rs \cup {Spread(r, [j \in {k} |-> v]) : r \in rs}

\* what a required option can be given as
RequiredValues(v) == {Undefined, "", v}

\* the configurations handed to the constructor
Inputs ==
    LET required == [serverUrl : RequiredValues(BASE_CONFIG.serverUrl),
                     apiKey : RequiredValues(BASE_CONFIG.apiKey),
                     productName : RequiredValues(BASE_CONFIG.productName)]
        r1 == Optional(required, "cacheTTL", BASE_CONFIG.cacheTTL)
        r2 == Optional(r1, "gracePeriod", BASE_CONFIG.gracePeriod)
        r3 == Optional(r2, "requestTimeout", BASE_CONFIG.requestTimeout)
        r4 == Optional(r3, "licenseKey", "LICENSE-1234")
    IN Optional(r4, "staticMetadata", [deviceType |-> "server", site |-> "eu"])

\* the argument of validate, forceValidate and checkOrThrow
NoPayload == EmptyObject

Payloads == {NoPayload,
             [metadata |-> [deviceType |-> "mobile", userId |-> "user123"]]}

VALID_RESPONSE ==
    [is_valid |-> TRUE, reason |-> "valid", status |-> "active",
     expires_at |-> ISO_DATE, allowed_data |-> "features:all"]

INVALID_RESPONSE_REVOKED ==
    [is_valid |-> FALSE, reason |-> "revoked", status |-> "revoked",
     expires_at |-> Undefined, allowed_data |-> Undefined]

\* a valid verdict that omits the optional reason
VALID_RESPONSE_NO_REASON ==
    [is_valid |-> TRUE, reason |-> Undefined, status |-> "active",
     expires_at |-> Null, allowed_data |-> Undefined]

\* an invalid verdict with an empty reason
INVALID_RESPONSE_EMPTY_REASON ==
    [is_valid |-> FALSE, reason |-> "", status |-> Undefined,
     expires_at |-> Undefined, allowed_data |-> Undefined]

Verdicts == {VALID_RESPONSE, INVALID_RESPONSE_REVOKED,
             VALID_RESPONSE_NO_REASON, INVALID_RESPONSE_EMPTY_REASON}

\* what the transport rejects with
Causes == {"Network Failure"}

\* thrown inside the try block when the response carries no body
TypeErrorCause == "TypeError"

Ops == {"validate", "forceValidate", "checkOrThrow"}

VARIABLES
    impl,      \* which copy of the agent runs
    input,     \* the configuration handed to the constructor
    config,    \* this.config
    apiClient, \* this.apiClient
    cache,     \* this.cache
    clock,     \* Date.now()
    callers,   \* how many callers share the agent
    calls,     \* the calls awaiting apiClient.post (a bag: callers are alike)
    last,      \* the call that the latest step settled, if it settled one:
               \* what the call saw, returned and threw
    sent,      \* the request that the latest step posted, if it posted one,
               \* and the payload it was built from
    sinceClear \* clearCache() has returned and no call was invoked since

vars == <<impl, input, config, apiClient, cache, clock, callers, calls, last,
          sent, sinceClear>>

\* what is fixed once the agent is constructed
agent == <<impl, input, config, apiClient, callers>>

\* ------------------------------------------------------------------ errors
NoError == [name |-> Undefined]

\* variant: the original cause is not passed on to the NetworkError
NetworkError_unwrapped(originalError) ==
    [name |-> "NetworkError",
     message |-> "Failed to connect to license server",
     originalError |-> Undefined]

\* new NetworkError('Failed to connect to license server', error)
NetworkError(originalError) ==
    [name |-> "NetworkError",
     message |-> "Failed to connect to license server",
     originalError |-> originalError]

\* variant: the constructor forgets to copy the status
ValidationError_noStatus(message, result) ==
    [name |-> "ValidationError", message |-> message,
     reason |-> IF "reason" \in DOMAIN result THEN result.reason ELSE Undefined,
     status |-> Undefined,
     expiresAt |-> IF "expiresAt" \in DOMAIN result THEN result.expiresAt ELSE NullDate,
     expiresAtSet |-> "expiresAt" \in DOMAIN result,
     allowedData |-> IF "allowedData" \in DOMAIN result THEN result.allowedData ELSE Undefined]

\* new ValidationError(message, result)
ValidationError(message, result) ==
    [name |-> "ValidationError", message |-> message,
     reason |-> IF "reason" \in DOMAIN result THEN result.reason ELSE Undefined,
     status |-> IF "status" \in DOMAIN result THEN result.status ELSE Undefined,
     expiresAt |-> IF "expiresAt" \in DOMAIN result THEN result.expiresAt ELSE NullDate,
     expiresAtSet |-> "expiresAt" \in DOMAIN result,
     allowedData |-> IF "allowedData" \in DOMAIN result THEN result.allowedData ELSE Undefined]

\* ------------------------------------------------------------------- cache
\* this.cache = null
NoCache == [present |-> FALSE]

\* variant: the comparison is inverted
isFresh_inverted(entry, ttl, now) ==
    entry # NoCache /\ now - entry.timestamp > ttl

\* variant: an entry aged exactly ttl still counts as fresh
isFresh_le(entry, ttl, now) ==
    entry # NoCache /\ now - entry.timestamp <= ttl

\* now - entry.timestamp < ttl, for an entry that is present
isFresh(entry, ttl, now) ==
    entry # NoCache /\ now - entry.timestamp < ttl

\* variant: only valid verdicts are stored
updateCache_validOnly(old, result, t) ==
    IF ~Flag(result, "isOffline") /\ ~Flag(result, "isGracePeriod")
       /\ result.isValid
    THEN [present |-> TRUE,
          result |-> Spread(result, [error |-> NoError]),
          timestamp |-> t]
    ELSE old

\* variant: an entry that is present is not overwritten
updateCache_firstWins(old, result, t) ==
    IF old # NoCache
    THEN old
    ELSE [present |-> TRUE,
          result |-> Spread(result, [error |-> NoError]),
          timestamp |-> t]

\* updateCache(result), called at time t
updateCache(old, result, t) ==
    IF ~Flag(result, "isOffline") /\ ~Flag(result, "isGracePeriod")
    THEN [present |-> TRUE,
          result |-> Spread(result, [error |-> NoError]),
          timestamp |-> t]
    ELSE old

\* clearCache()
clearCache == NoCache

\* ---------------------------------------------------------------- validate
\* the FRESH_CACHE return of validate
cachedResult(entry, variant) ==
    IF variant = "part_002"
       /\ ~Flag(entry.result, "isOffline") /\ ~Flag(entry.result, "isGracePeriod")
    THEN [entry.result EXCEPT !.reason = @ \o " (cached)"]
    ELSE entry.result

\* variant: lastCheckedAt is the epoch, whatever the time of the answer
onlineResult_epoch(apiResult, t) ==
    [isValid |-> apiResult.is_valid,
     reason |-> apiResult.reason,
     status |-> apiResult.status,
     expiresAt |-> IF Truthy(apiResult.expires_at)
                   THEN DateParse(apiResult.expires_at) ELSE NullDate,
     allowedData |-> apiResult.allowed_data,
     lastCheckedAt |-> 0]

\* variant: the expiry of the verdict is not carried over
onlineResult_noExpiry(apiResult, t) ==
    [isValid |-> apiResult.is_valid,
     reason |-> apiResult.reason,
     status |-> apiResult.status,
     expiresAt |-> NullDate,
     allowedData |-> apiResult.allowed_data,
     lastCheckedAt |-> t]

\* the result built from response.data, at time t
onlineResult(apiResult, t) ==
    [isValid |-> apiResult.is_valid,
     reason |-> apiResult.reason,
     status |-> apiResult.status,
     expiresAt |-> IF Truthy(apiResult.expires_at)
                   THEN DateParse(apiResult.expires_at) ELSE NullDate,
     allowedData |-> apiResult.allowed_data,
     lastCheckedAt |-> t]

\* which branch of the catch block is taken
offlinePath(entry, now, gracePeriod) ==
    IF entry # NoCache
    THEN IF entry.result.isValid /\ now - entry.timestamp < gracePeriod
         THEN "GRACE_PERIOD"
         ELSE "EXPIRED_GRACE"
    ELSE "NO_CACHE_OFFLINE"

\* variant: the grace window is measured against cacheTTL
offlineResult_ttl(entry, now, gracePeriod, networkError) ==
    IF entry # NoCache
    THEN IF entry.result.isValid /\ now - entry.timestamp < config.cacheTTL
         THEN Spread(entry.result,
                     [isValid |-> TRUE, isOffline |-> TRUE, isGracePeriod |-> TRUE,
                      reason |-> "grace_period", error |-> networkError])
         ELSE Spread(entry.result,
                     [isValid |-> FALSE, isOffline |-> TRUE, isGracePeriod |-> FALSE,
                      reason |-> IF Truthy(entry.result.reason)
                                 THEN entry.result.reason
                                 ELSE "offline_validation_failed",
                      error |-> networkError])
    ELSE [isValid |-> FALSE, isOffline |-> TRUE,
          reason |-> "network_error_no_cache", error |-> networkError]

\* variant: an entry aged exactly gracePeriod is still covered
offlineResult_le(entry, now, gracePeriod, networkError) ==
    IF entry # NoCache
    THEN IF entry.result.isValid /\ now - entry.timestamp <= gracePeriod
         THEN Spread(entry.result,
                     [isValid |-> TRUE, isOffline |-> TRUE, isGracePeriod |-> TRUE,
                      reason |-> "grace_period", error |-> networkError])
         ELSE Spread(entry.result,
                     [isValid |-> FALSE, isOffline |-> TRUE, isGracePeriod |-> FALSE,
                      reason |-> IF Truthy(entry.result.reason)
                                 THEN entry.result.reason
                                 ELSE "offline_validation_failed",
                      error |-> networkError])
    ELSE [isValid |-> FALSE, isOffline |-> TRUE,
          reason |-> "network_error_no_cache", error |-> networkError]

\* variant: an entry past the grace period is still flagged as in it
offlineResult_flagKept(entry, now, gracePeriod, networkError) ==
    IF entry # NoCache
    THEN IF entry.result.isValid /\ now - entry.timestamp < gracePeriod
         THEN Spread(entry.result,
                     [isValid |-> TRUE, isOffline |-> TRUE, isGracePeriod |-> TRUE,
                      reason |-> "grace_period", error |-> networkError])
         ELSE Spread(entry.result,
                     [isValid |-> FALSE, isOffline |-> TRUE, isGracePeriod |-> TRUE,
                      reason |-> IF Truthy(entry.result.reason)
                                 THEN entry.result.reason
                                 ELSE "offline_validation_failed",
                      error |-> networkError])
    ELSE [isValid |-> FALSE, isOffline |-> TRUE,
          reason |-> "network_error_no_cache", error |-> networkError]

\* the result returned by the catch block
offlineResult(entry, now, gracePeriod, networkError) ==
    IF entry # NoCache
    THEN IF entry.result.isValid /\ now - entry.timestamp < gracePeriod
         THEN Spread(entry.result,
                     [isValid |-> TRUE, isOffline |-> TRUE, isGracePeriod |-> TRUE,
                      reason |-> "grace_period", error |-> networkError])
         ELSE Spread(entry.result,
                     [isValid |-> FALSE, isOffline |-> TRUE, isGracePeriod |-> FALSE,
                      reason |-> IF Truthy(entry.result.reason)
                                 THEN entry.result.reason
                                 ELSE "offline_validation_failed",
                      error |-> networkError])
    ELSE [isValid |-> FALSE, isOffline |-> TRUE,
          reason |-> "network_error_no_cache", error |-> networkError]

\* ------------------------------------------------------------ checkOrThrow
\* variant: the attached error is looked at before the verdict
checkOrThrowThrows_errorFirst(result) ==
    IF "error" \in DOMAIN result /\ result.error.name = "NetworkError"
    THEN result.error
    ELSE IF ~result.isValid /\ ~Flag(result, "isGracePeriod")
         THEN ValidationError(IF Truthy(result.reason) THEN result.reason
                              ELSE "License validation failed", result)
         ELSE NoError

\* variant: every invalid result is reported as a ValidationError
checkOrThrowThrows_validationOnly(result) ==
    IF ~result.isValid
    THEN IF Flag(result, "isGracePeriod")
         THEN NoError
         ELSE ValidationError(IF Truthy(result.reason) THEN result.reason
                              ELSE "License validation failed", result)
    ELSE NoError

\* what checkOrThrow throws for a result of validate (NoError: it returns)
checkOrThrowThrows(result) ==
    IF ~result.isValid
    THEN IF Flag(result, "isGracePeriod")
         THEN NoError
         ELSE IF "error" \in DOMAIN result /\ result.error.name = "NetworkError"
              THEN result.error
              ELSE ValidationError(IF Truthy(result.reason) THEN result.reason
                                   ELSE "License validation failed", result)
    ELSE NoError

\* variant: the catch block of validate lets the network error escape
thrownBy_propagate(op, result) ==
    IF op = "checkOrThrow"
    THEN checkOrThrowThrows(result)
    ELSE IF "error" \in DOMAIN result THEN result.error ELSE NoError

\* what a call of operation op throws once its validate returned result
thrownBy(op, result) ==
    IF op = "checkOrThrow" THEN checkOrThrowThrows(result) ELSE NoError

\* ------------------------------------------------------------- constructor
\* new InvalidConfigError(message)
InvalidConfigError(message) == [name |-> "InvalidConfigError", message |-> message]

\* this.config, this.apiClient before the constructor has assigned them
NoConfig == [present |-> FALSE]
NoClient == [present |-> FALSE]

\* variant: apiKey is not among the required options
requiredMissing_noApiKey(cfg) ==
    \/ ~Truthy(Field(cfg, "serverUrl"))
    \/ ~Truthy(Field(cfg, "productName"))

\* !config.serverUrl || !config.apiKey || !config.productName
requiredMissing(cfg) ==
    \/ ~Truthy(Field(cfg, "serverUrl"))
    \/ ~Truthy(Field(cfg, "apiKey"))
    \/ ~Truthy(Field(cfg, "productName"))

\* config.k ?? fallback, for a numeric option
OrDefault(cfg, k, fallback) == IF k \in DOMAIN cfg THEN cfg[k] ELSE fallback

\* axios.create({ baseURL, timeout, headers })
axiosCreate(cfg) ==
    [baseURL |-> cfg.serverUrl,
     timeout |-> cfg.requestTimeout,
     headers |-> [ContentType |-> "application/json", XAPIKey |-> cfg.apiKey]]

\* new LicenseAgent(cfg): what it throws, or the fields it assigns
constructor(cfg) ==
    IF requiredMissing(cfg)
    THEN [thrown |-> InvalidConfigError(
                         "serverUrl, apiKey, and productName are required"),
          config |-> NoConfig,
          apiClient |-> NoClient]
    ELSE LET completed ==
                 Spread(cfg,
                        [cacheTTL |-> OrDefault(cfg, "cacheTTL", DEFAULT_CACHE_TTL),
                         gracePeriod |-> OrDefault(cfg, "gracePeriod",
                                                   DEFAULT_GRACE_PERIOD),
                         requestTimeout |-> OrDefault(cfg, "requestTimeout",
                                                      DEFAULT_REQUEST_TIMEOUT)])
         IN [thrown |-> NoError,
             config |-> completed,
             apiClient |-> axiosCreate(completed)]

\* ----------------------------------------------------------------- request
\* the latest step posted nothing
NoRequest == [url |-> "none"]

\* variant: on a key that both maps hold, the static value is kept
requestData_staticWins(cfg, payload, variant) ==
    LET key == IF variant = "part_002" THEN cfg.apiKey
               ELSE Field(cfg, "licenseKey")
        static == IF "staticMetadata" \in DOMAIN cfg
                  THEN cfg.staticMetadata ELSE EmptyObject
        dynamic == IF "metadata" \in DOMAIN payload
                   THEN payload.metadata ELSE EmptyObject
        metadata == Spread(dynamic, static)
        data == [license_key |-> key, product_name |-> cfg.productName]
    IN IF DOMAIN metadata = {}
       THEN data
       ELSE Spread(data, [metadata |-> metadata])

\* requestData as posted: built, and stripped of an empty metadata
requestData(cfg, payload, variant) ==
    LET key == IF variant = "part_002" THEN cfg.apiKey
               ELSE Field(cfg, "licenseKey")
        static == IF "staticMetadata" \in DOMAIN cfg
                  THEN cfg.staticMetadata ELSE EmptyObject
        dynamic == IF "metadata" \in DOMAIN payload
                   THEN payload.metadata ELSE EmptyObject
        metadata == Spread(static, dynamic)
        data == [license_key |-> key, product_name |-> cfg.productName]
    IN IF DOMAIN metadata = {}
       THEN data
       ELSE Spread(data, [metadata |-> metadata])

\* ------------------------------------------------------------------- state
\* the latest step settled no call
NoCall == [path |-> "none"]

Init ==
    /\ impl \in Impls
    /\ input = BASE_CONFIG
    /\ config = constructor(BASE_CONFIG).config
    /\ apiClient = constructor(BASE_CONFIG).apiClient
    /\ cache = NoCache
    /\ clock = 0
    /\ callers = MaxCallers
    /\ calls = EmptyBag
    /\ last = NoCall
    /\ sent = NoRequest
    /\ sinceClear = FALSE

\* the intended use: one caller, which awaits each call before the next
InitSingle ==
    /\ impl \in Impls
    /\ input = BASE_CONFIG
    /\ config = constructor(BASE_CONFIG).config
    /\ apiClient = constructor(BASE_CONFIG).apiClient
    /\ cache = NoCache
    /\ clock = 0
    /\ callers = 1
    /\ calls = EmptyBag
    /\ last = NoCall
    /\ sent = NoRequest
    /\ sinceClear = FALSE

\* before new LicenseAgent(input), for any input; then one caller
InitNew ==
    /\ impl \in Impls
    /\ input \in Inputs
    /\ config = NoConfig
    /\ apiClient = NoClient
    /\ cache = NoCache
    /\ clock = 0
    /\ callers = 1
    /\ calls = EmptyBag
    /\ last = NoCall
    /\ sent = NoRequest
    /\ sinceClear = FALSE

\* new LicenseAgent(input)
Construct ==
    /\ apiClient = NoClient
    /\ LET made == constructor(input)
       IN /\ config' = made.config
          /\ apiClient' = made.apiClient
          /\ last' = [op |-> "constructor", path |-> "constructor",
                      thrown |-> made.thrown]
    /\ sent' = NoRequest
    /\ UNCHANGED <<impl, input, callers, cache, clock, calls, sinceClear>>

\* variant: forceValidate goes straight to validate
cacheAtValidate_noClear(op, entry) == entry

\* this.cache as validate finds it: forceValidate has cleared it just before
cacheAtValidate(op, entry) ==
    IF op = "forceValidate" THEN clearCache ELSE entry

\* variant: the catch block stores the result it returns
cacheAfterCatch_store(old, result, t) ==
    [present |-> TRUE, result |-> result, timestamp |-> t]

\* this.cache after the catch block: it assigns nothing
cacheAfterCatch(old, result, t) == old

\* variant: a call that finds a request in flight waits for that one
post_coalesced(inflight, call) ==
    IF inflight # EmptyBag THEN inflight ELSE inflight (+) SetToBag({call})

\* the calls awaiting apiClient.post once call has posted its request
post(inflight, call) == inflight (+) SetToBag({call})

\* A caller that awaits no call invokes validate, forceValidate or
\* checkOrThrow: everything up to the await of apiClient.post, or up to the
\* return from the fresh cache.
Invoke(op, payload) ==
    /\ apiClient # NoClient
    /\ BagCardinality(calls) < callers
    /\ LET entry == cacheAtValidate(op, cache)
           now == clock
       IN /\ cache' = entry
          /\ IF isFresh(entry, config.cacheTTL, now)
             THEN LET result == cachedResult(entry, impl)
                  IN /\ last' = [op |-> op, now |-> now,
                                 posted |-> 0, path |-> "FRESH_CACHE",
                                 seen |-> entry, result |-> result,
                                 thrown |-> thrownBy(op, result)]
                     /\ sent' = NoRequest
                     /\ UNCHANGED calls
             ELSE /\ calls' = post(calls,
                                    [op |-> op, now |-> now, posted |-> 1])
                  /\ sent' = [url |-> "/licenses/validate",
                              data |-> requestData(config, payload, impl),
                              payload |-> payload]
                  /\ last' = NoCall
    /\ sinceClear' = FALSE
    /\ UNCHANGED <<agent, clock>>

\* apiClient.post of call resolves with a verdict: the rest of the try block
\* (overlapped: the write replaces an entry written while call was in flight)
Respond(call, apiResult) ==
    /\ BagIn(call, calls)
    /\ LET result == onlineResult(apiResult, clock)
       IN /\ cache' = updateCache(cache, result, clock)
          /\ last' = [op |-> call.op, now |-> call.now,
                      posted |-> call.posted, path |-> "ONLINE_CHECK",
                      seen |-> NoCache, response |-> apiResult,
                      overlapped |-> cache # NoCache
                                     /\ cache.timestamp >= call.now,
                      result |-> result,
                      thrown |-> thrownBy(call.op, result)]
    /\ calls' = calls (-) SetToBag({call})
    /\ sent' = NoRequest
    /\ UNCHANGED <<agent, clock, sinceClear>>

\* the try block of call throws error: the catch block
Catch(call, error) ==
    /\ BagIn(call, calls)
    /\ LET networkError == NetworkError(error)
           result == offlineResult(cache, call.now, config.gracePeriod,
                                   networkError)
       IN /\ cache' = cacheAfterCatch(cache, result, clock)
          /\ last' = [op |-> call.op, now |-> call.now,
                      posted |-> call.posted,
                      path |-> offlinePath(cache, call.now, config.gracePeriod),
                      seen |-> cache, cause |-> error,
                      result |-> result,
                      thrown |-> thrownBy(call.op, result)]
    /\ calls' = calls (-) SetToBag({call})
    /\ sent' = NoRequest
    /\ UNCHANGED <<agent, clock, sinceClear>>

\* apiClient.post rejects (timeout, connection error, non-2xx)
Reject(call) == \E error \in Causes : Catch(call, error)

\* apiClient.post resolves without a body: reading response.data.expires_at
\* throws a TypeError inside the try block
RespondEmpty(call) == Catch(call, TypeErrorCause)

\* a caller calls clearCache()
ClearCache ==
    /\ apiClient # NoClient
    /\ cache' = clearCache
    /\ last' = NoCall
    /\ sent' = NoRequest
    /\ sinceClear' = TRUE
    /\ UNCHANGED <<agent, clock, calls>>

\* time passes
Tick ==
    /\ clock < MaxTime
    /\ clock' = clock + 1
    /\ last' = NoCall
    /\ sent' = NoRequest
    /\ UNCHANGED <<agent, cache, calls, sinceClear>>

Next ==
    \/ \E op \in Ops, payload \in Payloads : Invoke(op, payload)
    \/ \E call \in BagToSet(calls), v \in Verdicts : Respond(call, v)
    \/ \E call \in BagToSet(calls) : Reject(call)
    \/ \E call \in BagToSet(calls) : RespondEmpty(call)
    \/ ClearCache
    \/ Tick

Spec == Init /\ [][Next]_vars

\* every call that validate can have in flight
AllCalls == [op : Ops, now : 0..MaxTime, posted : {1}]

\* the try block of call is resumed, by a response or by a rejection
Settle(call) ==
    \/ \E v \in Verdicts : Respond(call, v)
    \/ Reject(call)
    \/ RespondEmpty(call)

\* the remote call of some call in flight ends
SettleSome == \E call \in BagToSet(calls) : Settle(call)

\* One caller, and a transport that settles every request: it enforces
\* requestTimeout.
FairSpec == InitSingle /\ [][Next]_vars /\ WF_vars(SettleSome)

\* One caller that awaits each call before the next: sequential calls.
SequentialSpec == InitSingle /\ [][Next]_vars

\* the agent from its construction on, for every configuration
NextNew ==
    \/ Construct
    \/ Next

ConfigSpec == InitNew /\ [][NextNew]_vars

TypeOK ==
    /\ impl \in Impls
    /\ clock \in 0..MaxTime
    /\ BagCardinality(calls) <= callers

\* ================================================================== claims
\* the remote call of the call that has just settled failed
Failed == "cause" \in DOMAIN last

\* the entry that the online check that has just settled wrote to the cache
EntryOfLast ==
    [present |-> TRUE,
     result |-> Spread(last.result, [error |-> NoError]),
     timestamp |-> last.result.lastCheckedAt]

\* the fields of a result that come from the verdict and the check
ResultFields == {"isValid", "reason", "status", "expiresAt", "allowedData",
                 "lastCheckedAt"}

\* the call put in flight by a validate-like operation invoked now
NewCall(op) == [op |-> op, now |-> clock, posted |-> 1]

\* ---------------------------------------------------------------------- C1
\* the cache holds the result of an online check, younger than cacheTTL
InWindow ==
    /\ cache # NoCache
    /\ clock - cache.timestamp < config.cacheTTL

\* C1: a validate() that starts after an online validate() has settled and
\* while the entry written by that call is younger than cacheTTL is
\* answered from the cache and issues no remote call; when it directly
\* follows the first call, the two calls have issued exactly one remote
\* call in total.
C1_SecondCallFromCache ==
    [][\A payload \in Payloads :
       (InWindow /\ Invoke("validate", payload))
       => (/\ last'.path = "FRESH_CACHE"
           /\ last'.seen = cache
           /\ last'.posted = 0
           /\ calls' = calls
           /\ (last.path = "ONLINE_CHECK" /\ last.op = "validate"
                  /\ cache = EntryOfLast)
              => last.posted + last'.posted = 1)]_vars

C1_Witness ==
    /\ last.path = "FRESH_CACHE"
    /\ last.op = "validate"
    /\ last.posted = 0
    /\ last.now > last.seen.timestamp

\* ---------------------------------------------------------------------- C2
\* C2: a result returned from the fresh cache has the reason, status,
\* expiry, allowed data, validity flag and lastCheckedAt of the stored
\* result, which are those of the online check that populated the cache.
C2_CachedCopyUnmodified ==
    last.path = "FRESH_CACHE" =>
        \A k \in ResultFields : last.result[k] = last.seen.result[k]

\* ---------------------------------------------------------------------- C3
\* C3: a validate() that starts with an empty cache, or with an entry whose
\* age now - timestamp is at least cacheTTL, issues exactly one remote call
\* and is not answered from the cache.
C3_StaleOrEmptyIssuesOneCall ==
    [][\A op \in {"validate", "checkOrThrow"}, payload \in Payloads :
          (/\ \/ cache = NoCache
              \/ clock - cache.timestamp >= config.cacheTTL
           /\ Invoke(op, payload))
          => (/\ CopiesIn(NewCall(op), calls') = CopiesIn(NewCall(op), calls) + 1
              /\ BagCardinality(calls') = BagCardinality(calls) + 1
              /\ last' = NoCall)]_vars

C3_Witness ==
    /\ cache # NoCache
    /\ clock - cache.timestamp = config.cacheTTL
    /\ BagIn(NewCall("validate"), calls)

\* ---------------------------------------------------------------------- C4
\* C4: a remote failure that finds no cache entry returns exactly
\* isValid=false, isOffline=true, reason "network_error_no_cache" and a
\* NetworkError wrapping the original cause; lastCheckedAt is absent.
C4_NoCacheOffline ==
    (Failed /\ last.seen = NoCache) =>
        /\ last.result.isValid = FALSE
        /\ last.result.isOffline = TRUE
        /\ last.result.reason = "network_error_no_cache"
        /\ last.result.error.name = "NetworkError"
        /\ last.result.error.originalError = last.cause
        /\ "lastCheckedAt" \notin DOMAIN last.result

C4_Witness ==
    /\ Failed
    /\ last.seen = NoCache
    /\ last.op = "validate"
    /\ last.cause = "Network Failure"

\* ---------------------------------------------------------------------- C5
\* the catch block finds a valid stored result younger than gracePeriod
InGrace ==
    /\ Failed
    /\ last.seen # NoCache
    /\ last.seen.result.isValid
    /\ last.now - last.seen.timestamp < config.gracePeriod

\* C5: a remote failure that finds a valid stored result younger than
\* gracePeriod returns isValid=true, isOffline=true, isGracePeriod=true,
\* reason "grace_period", a NetworkError wrapping the cause, and the stored
\* status, expiry, allowed data and lastCheckedAt.
C5_GracePeriod ==
    InGrace =>
        /\ last.result.isValid = TRUE
        /\ last.result.isOffline = TRUE
        /\ last.result.isGracePeriod = TRUE
        /\ last.result.reason = "grace_period"
        /\ last.result.error.name = "NetworkError"
        /\ last.result.error.originalError = last.cause
        /\ \A k \in {"status", "expiresAt", "allowedData", "lastCheckedAt"} :
              last.result[k] = last.seen.result[k]

C5_Witness ==
    /\ InGrace
    /\ last.now - last.seen.timestamp >= config.cacheTTL
    /\ last.seen.result.reason = "valid"

\* ---------------------------------------------------------------------- C6
\* the catch block finds a stored result that is invalid or too old
GraceExpired ==
    /\ Failed
    /\ last.seen # NoCache
    /\ \/ ~last.seen.result.isValid
       \/ last.now - last.seen.timestamp >= config.gracePeriod

\* C6: a remote failure that finds a stored result that is invalid, or aged
\* gracePeriod or more, returns isValid=false, isOffline=true,
\* isGracePeriod=false, a NetworkError, and the stored reason, or
\* "offline_validation_failed" when the stored reason is absent or empty.
C6_ExpiredGrace ==
    GraceExpired =>
        /\ last.result.isValid = FALSE
        /\ last.result.isOffline = TRUE
        /\ last.result.isGracePeriod = FALSE
        /\ last.result.error.name = "NetworkError"
        /\ last.result.error.originalError = last.cause
        /\ last.result.reason =
              IF last.seen.result.reason \in {Undefined, Null, ""}
              THEN "offline_validation_failed"
              ELSE last.seen.result.reason

\* a valid stored result aged exactly gracePeriod
C6_Witness ==
    /\ GraceExpired
    /\ last.seen.result.isValid
    /\ last.now - last.seen.timestamp = config.gracePeriod
    /\ last.result.reason = "valid"

\* ---------------------------------------------------------------------- C7
\* validate and forceValidate return a ValidationResult and throw nothing;
\* a failure of the remote call is carried by the result
ReturnsResult ==
    (last.path # "none" /\ last.op \in {"validate", "forceValidate"}) =>
        /\ last.thrown = NoError
        /\ last.result.isValid \in BOOLEAN
        /\ Failed => /\ last.result.isOffline = TRUE
                     /\ last.result.error = NetworkError(last.cause)

\* a call like this one has settled after its remote call
SettledAs(call) ==
    /\ last.path \notin {"none", "FRESH_CACHE"}
    /\ last.op = call.op
    /\ last.now = call.now
    /\ last.posted = call.posted

\* C7: validate() and forceValidate() never throw: whatever the cache holds
\* and however the remote call ends, the call settles with a result, and a
\* failure of the remote call is encoded in that result.
C7_NeverThrows ==
    /\ []ReturnsResult
    /\ \A call \in AllCalls :
          BagIn(call, calls) ~> (calls = EmptyBag /\ SettledAs(call))

\* forceValidate settled with a degraded result after a response without body
C7_Witness ==
    /\ Failed
    /\ last.op = "forceValidate"
    /\ last.cause = TypeErrorCause
    /\ last.thrown = NoError

\* ---------------------------------------------------------------------- C8
\* C8: checkOrThrow() returns normally exactly when the result of its
\* validate() has isValid=true or isGracePeriod=true.
C8_ResolvesIffValidOrGrace ==
    (last.path # "none" /\ last.op = "checkOrThrow") =>
        ((last.thrown = NoError)
            <=> (last.result.isValid \/ Flag(last.result, "isGracePeriod")))

\* checkOrThrow returned normally although the remote call failed
C8_Witness ==
    /\ last.path # "none"
    /\ last.op = "checkOrThrow"
    /\ InGrace
    /\ last.thrown = NoError

\* ---------------------------------------------------------------------- C9
\* C9: when its validate() ends in NO_CACHE_OFFLINE or EXPIRED_GRACE,
\* checkOrThrow() throws the NetworkError carried by the result, which wraps
\* the original cause, and not a ValidationError.
C9_ThrowsCarriedNetworkError ==
    (Failed /\ last.op = "checkOrThrow" /\ (last.seen = NoCache \/ GraceExpired)) =>
        /\ last.thrown = last.result.error
        /\ last.thrown.name = "NetworkError"
        /\ last.thrown.originalError = last.cause

C9_Witness ==
    /\ last.path = "EXPIRED_GRACE"
    /\ last.op = "checkOrThrow"
    /\ last.thrown.name = "NetworkError"

C11_ClearThenValidateGoesRemote ==
    [][\A op \in {"validate", "checkOrThrow"}, payload \in Payloads :
          (sinceClear /\ Invoke(op, payload))
          => (/\ BagCardinality(calls') = BagCardinality(calls) + 1
              /\ sent' # NoRequest
              /\ last' = NoCall)]_vars

\* --------------------------------------------------------------------- C12
\* C12: every forceValidate() puts exactly one remote call in flight and
\* posts one request, whatever the cache holds and whatever calls are in
\* flight; no forceValidate() is answered from the cache.
C12_ForceValidateAlwaysPosts ==
    /\ [][\A payload \in Payloads :
             Invoke("forceValidate", payload)
             => (/\ CopiesIn(NewCall("forceValidate"), calls')
                      = CopiesIn(NewCall("forceValidate"), calls) + 1
                 /\ BagCardinality(calls') = BagCardinality(calls) + 1
                 /\ sent' # NoRequest
                 /\ last' = NoCall)]_vars
    /\ []((last.path # "none" /\ last.op = "forceValidate")
             => last.path # "FRESH_CACHE" /\ last.posted = 1)

\* a forceValidate() has just posted its request while another call is in
\* flight
C12_Witness ==
    /\ BagIn(NewCall("forceValidate"), calls)
    /\ BagCardinality(calls) = 2
    /\ sent # NoRequest
    /\ cache = NoCache

\* --------------------------------------------------------------------- C13
\* C13: the result of a call answered by the license service has the
\* validity flag, reason, status and allowed data of the verdict, the parsed
\* expires_at of the verdict or a null expiry when the verdict has none,
\* lastCheckedAt set to the time of the answer, and no isOffline,
\* isGracePeriod or error field.
C13_OnlineResultCopiesVerdict ==
    last.path = "ONLINE_CHECK" =>
        /\ last.result.isValid = last.response.is_valid
        /\ last.result.reason = last.response.reason
        /\ last.result.status = last.response.status
        /\ last.result.allowedData = last.response.allowed_data
        /\ last.result.expiresAt =
              IF last.response.expires_at \in {Undefined, Null}
              THEN NullDate
              ELSE DateParse(last.response.expires_at)
        /\ last.result.lastCheckedAt = clock
        /\ DOMAIN last.result = ResultFields

\* online answers with an expiry date, and without one
C13_Witness ==
    /\ last.path = "ONLINE_CHECK"
    /\ last.response = VALID_RESPONSE
    /\ last.result.expiresAt = DateParse(ISO_DATE)
    /\ last.result.expiresAt # NullDate
    /\ last.result.lastCheckedAt > 0

\* --------------------------------------------------------------------- C14
\* C14: every request posted to the license service carries license_key
\* equal to the configured apiKey and product_name equal to the configured
\* productName.
C14_RequestCarriesApiKey ==
    sent # NoRequest =>
        /\ sent.data.license_key = config.apiKey
        /\ sent.data.product_name = config.productName

\* --------------------------------------------------------------------- C15
\* one of the three required options is missing or empty in the input
RequiredOptionMissing ==
    \E k \in {"serverUrl", "apiKey", "productName"} :
        k \notin DOMAIN input \/ input[k] \in {Undefined, Null, ""}

\* C15: when serverUrl, apiKey or productName is missing or empty, the
\* constructor throws an InvalidConfigError, no transport client is ever
\* created and no request is ever posted; when all three are non-empty the
\* constructor throws nothing, creates the client, and cacheTTL, gracePeriod
\* and requestTimeout are the given values or else 1 hour, 24 hours and 10
\* seconds in milliseconds.
C15_ConstructorChecksRequiredOptions ==
    /\ RequiredOptionMissing =>
          /\ apiClient = NoClient
          /\ config = NoConfig
          /\ calls = EmptyBag
          /\ sent = NoRequest
          /\ last.path # "none" =>
                /\ last.path = "constructor"
                /\ last.thrown.name = "InvalidConfigError"
    /\ (~RequiredOptionMissing /\ last.path = "constructor") =>
          /\ last.thrown = NoError
          /\ apiClient # NoClient
    /\ apiClient # NoClient =>
          /\ config.cacheTTL =
                IF "cacheTTL" \in DOMAIN input THEN input.cacheTTL ELSE 3600000
          /\ config.gracePeriod =
                IF "gracePeriod" \in DOMAIN input THEN input.gracePeriod
                ELSE 86400000
          /\ config.requestTimeout =
                IF "requestTimeout" \in DOMAIN input THEN input.requestTimeout
                ELSE 10000
          /\ \A k \in DOMAIN input \ {"cacheTTL", "gracePeriod", "requestTimeout"} :
                config[k] = input[k]

\* the constructor has thrown for an empty apiKey, the other two options
\* being given
C15_Witness ==
    /\ last.path = "constructor"
    /\ last.thrown.name = "InvalidConfigError"
    /\ input.apiKey = ""
    /\ Truthy(input.serverUrl)
    /\ Truthy(input.productName)
    /\ apiClient = NoClient

\* --------------------------------------------------------------------- C16
\* C16: the metadata of a posted request has the keys of the configured
\* static metadata and of the payload's metadata, each with the payload's
\* value when the payload has the key and the static value otherwise; the
\* request has no metadata field when neither map has a key.
C16_MetadataMerged ==
    sent # NoRequest =>
        LET static == IF "staticMetadata" \in DOMAIN input
                      THEN input.staticMetadata ELSE EmptyObject
            dynamic == IF "metadata" \in DOMAIN sent.payload
                       THEN sent.payload.metadata ELSE EmptyObject
            keys == DOMAIN static \cup DOMAIN dynamic
        IN IF keys = {}
           THEN "metadata" \notin DOMAIN sent.data
           ELSE /\ "metadata" \in DOMAIN sent.data
                /\ DOMAIN sent.data.metadata = keys
                /\ \A k \in keys :
                      sent.data.metadata[k] =
                          IF k \in DOMAIN dynamic THEN dynamic[k] ELSE static[k]

\* a request whose metadata has a key of both maps, a key of the static
\* map only and a key of the payload only
C16_Witness ==
    /\ sent # NoRequest
    /\ "metadata" \in DOMAIN sent.data
    /\ sent.data.metadata =
          [deviceType |-> "mobile", site |-> "eu", userId |-> "user123"]
    /\ input.staticMetadata.deviceType = "server"

\* --------------------------------------------------------------------- C17
\* the latest step settled a call: last.result is what its validate returned
Settled == "result" \in DOMAIN last

\* C17: in every result returned by validate() or forceValidate(), also to
\* checkOrThrow(): isGracePeriod true implies isOffline true and isValid
\* true; isOffline true implies that error is present and is a
\* NetworkError.
C17_DegradedFlagsConsistent ==
    Settled =>
        /\ Flag(last.result, "isGracePeriod") =>
              /\ Flag(last.result, "isOffline")
              /\ last.result.isValid
        /\ Flag(last.result, "isOffline") =>
              /\ "error" \in DOMAIN last.result
              /\ last.result.error.name = "NetworkError"

\* a result of the expired grace period: offline and not in the grace period
C17_Witness ==
    /\ Settled
    /\ last.path = "EXPIRED_GRACE"
    /\ last.seen.result.isValid
    /\ last.result.isOffline
    /\ ~last.result.isGracePeriod

\* --------------------------------------------------------------------- C18
\* C18: the cache is empty or holds the result of a successful remote
\* check: the stored result has neither isOffline nor isGracePeriod set,
\* carries no error, and has the fields of an online result.
C18_CacheHoldsOnlineResult ==
    cache # NoCache =>
        /\ ~Flag(cache.result, "isOffline")
        /\ ~Flag(cache.result, "isGracePeriod")
        /\ cache.result.error = NoError
        /\ ResultFields \subseteq DOMAIN cache.result

\* the cache still holds an online result after a call has failed over it
C18_Witness ==
    /\ cache # NoCache
    /\ Failed
    /\ last.seen = cache
    /\ last.result.isOffline
    /\ last.result.isGracePeriod

\* --------------------------------------------------------------------- C19
\* C19 as stated: a forceValidate() whose remote call fails never returns a
\* result of the grace period.
C19_ForceValidateNeverGrace ==
    (Settled /\ last.op = "forceValidate" /\ Failed) =>
        /\ last.path # "GRACE_PERIOD"
        /\ ~Flag(last.result, "isGracePeriod")

\* C19: a forceValidate() whose remote call fails never falls back on the
\* entry that the cache held before the call; when it returns a result of
\* the grace period, the entry behind it was stored by an overlapping call
\* while the forceValidate() was in flight.
C19_ForceValidateGraceOnlyFromOverlap ==
    (Settled /\ last.op = "forceValidate" /\ Failed /\ last.seen # NoCache) =>
        last.seen.timestamp >= last.now

\* a forceValidate() failed after an overlapping call had stored a valid
\* verdict, and returned a result of the grace period
C19_Witness ==
    /\ Settled
    /\ last.op = "forceValidate"
    /\ Failed
    /\ last.path = "GRACE_PERIOD"
    /\ last.result.isGracePeriod
    /\ last.seen.timestamp >= last.now

\* --------------------------------------------------------------------- C20
\* C20: when a remote call completes successfully the cache holds the
\* result of that call, whatever an overlapping call stored before and
\* whichever call was invoked first; the cache then changes only by a
\* later successful completion or a clear. So once two overlapping calls
\* have both succeeded, the cache holds the result of the one that
\* completed last.
C20_LastWriteWins ==
    /\ [](last.path = "ONLINE_CHECK" => cache = EntryOfLast)
    /\ [][cache' # cache =>
             \/ cache' = NoCache
             \/ last'.path = "ONLINE_CHECK"]_vars

\* two overlapping calls have both succeeded: the later completion has
\* replaced the different result stored by the earlier one, and no call is
\* in flight
C20_Witness ==
    /\ last.path = "ONLINE_CHECK"
    /\ last.op = "validate"
    /\ last.overlapped
    /\ last.now < clock
    /\ calls = EmptyBag
    /\ cache.result.reason = "revoked"
    /\ cache = EntryOfLast

\* --------------------------------------------------------------------- C21
\* C21: a validate() invoked on an empty or stale cache while earlier calls
\* are in flight posts its own request and joins them in flight, so n
\* overlapping calls on a cache that is not fresh post n requests; each of
\* them settles with the result of its own remote outcome: the verdict it
\* received, or a degraded result carrying its own failure.
C21_NoCoalescing ==
    /\ [][\A op \in {"validate", "checkOrThrow"}, payload \in Payloads :
             (/\ calls # EmptyBag
              /\ ~(cache # NoCache /\ clock - cache.timestamp < config.cacheTTL)
              /\ Invoke(op, payload))
             => (/\ sent' # NoRequest
                 /\ BagCardinality(calls') = BagCardinality(calls) + 1
                 /\ CopiesIn(NewCall(op), calls')
                       = CopiesIn(NewCall(op), calls) + 1
                 /\ \A c \in BagToSet(calls) :
                       CopiesIn(c, calls') >= CopiesIn(c, calls))]_vars
    /\ [][("result" \in DOMAIN last' /\ last'.posted = 1) =>
             LET call == [op |-> last'.op, now |-> last'.now, posted |-> 1]
             IN /\ BagIn(call, calls)
                /\ calls' = calls (-) SetToBag({call})
                /\ \/ /\ last'.path = "ONLINE_CHECK"
                      /\ last'.result = onlineResult(last'.response, clock)
                   \/ /\ "cause" \in DOMAIN last'
                      /\ last'.result.error = NetworkError(last'.cause)]_vars

\* every caller has a validate() in flight at once, the latest has just
\* posted its request
C21_Witness ==
    /\ BagCardinality(calls) = callers
    /\ callers > 1
    /\ \A c \in BagToSet(calls) : c.op = "validate"
    /\ sent # NoRequest
    /\ cache = NoCache

\* --------------------------------------------------------------------- C22
\* the longer of cacheTTL and gracePeriod
Window ==
    IF config.cacheTTL > config.gracePeriod
    THEN config.cacheTTL ELSE config.gracePeriod

\* the call that has just settled got no verdict of its own and found the
\* valid verdict stored at time last.seen.timestamp
AnsweredFromStoredValid ==
    /\ "result" \in DOMAIN last
    /\ last.path # "ONLINE_CHECK"
    /\ last.seen # NoCache
    /\ last.seen.result.isValid

\* C22: with calls made one after the other, a call started at time s that
\* gets no verdict of its own and finds the valid verdict stored at time t
\* returns isValid true iff s - t is less than the longer of cacheTTL and
\* gracePeriod: from the fresh cache iff s - t < cacheTTL, else in the grace
\* period iff s - t < gracePeriod, else as expired. Such answers leave the
\* stored verdict and its time t as they are, and after an expired answer
\* the entry is older than both windows, so that every later call is
\* answered as expired until a remote call succeeds or the cache is cleared.
C22_GraceAnchoredAtLastSuccess ==
    /\ [](AnsweredFromStoredValid =>
             LET age == last.now - last.seen.timestamp
             IN /\ last.result.isValid <=> age < Window
                /\ last.path = "FRESH_CACHE" <=> age < config.cacheTTL
                /\ last.path = "GRACE_PERIOD"
                      <=> (age >= config.cacheTTL /\ age < config.gracePeriod)
                /\ last.path = "EXPIRED_GRACE"
                      <=> (age >= config.cacheTTL /\ age >= config.gracePeriod)
                /\ last.path = "EXPIRED_GRACE" =>
                      /\ cache = last.seen
                      /\ clock - cache.timestamp >= Window)
    /\ [][("result" \in DOMAIN last' /\ last'.path # "ONLINE_CHECK"
              /\ last'.op # "forceValidate")
             => (cache' = cache /\ last'.seen = cache)]_vars
    /\ [][clock' >= clock]_vars

\* a validate() started exactly gracePeriod after the valid verdict was
\* stored has failed and is answered as expired
C22_Witness ==
    /\ AnsweredFromStoredValid
    /\ last.op = "validate"
    /\ last.path = "EXPIRED_GRACE"
    /\ last.now - last.seen.timestamp = config.gracePeriod
    /\ config.gracePeriod > config.cacheTTL
    /\ ~last.result.isValid

\* --------------------------------------------------------------------- C23
\* C23: a step changes the cache only by storing the verdict that a remote
\* call has just received, valid or invalid, with the current time, or by
\* emptying it in clearCache() or at the start of forceValidate(); a call
\* answered from the fresh cache and a call whose remote call fails, on any
\* of the three degraded paths and also when checkOrThrow() throws, leave
\* the stored result and its timestamp unchanged.
C23_CacheFrame ==
    [][/\ last'.path = "ONLINE_CHECK" =>
             /\ cache'.present
             /\ cache'.timestamp = clock'
             /\ \A k \in ResultFields \ {"lastCheckedAt"} :
                   cache'.result[k] = onlineResult(last'.response, clock')[k]
             /\ cache'.result.isValid = last'.response.is_valid
       /\ last'.path \in {"FRESH_CACHE", "GRACE_PERIOD", "EXPIRED_GRACE",
                          "NO_CACHE_OFFLINE"} =>
             cache' = cache
       /\ cache' # cache =>
             \/ last'.path = "ONLINE_CHECK"
             \/ /\ cache' = NoCache
                /\ \/ ClearCache
                   \/ \E payload \in Payloads : Invoke("forceValidate", payload)
      ]_vars

\* checkOrThrow() has thrown for an invalid verdict, which has been stored
\* over the valid one that an overlapping call had stored
C23_Witness ==
    /\ last.path = "ONLINE_CHECK"
    /\ last.op = "checkOrThrow"
    /\ last.thrown.name = "ValidationError"
    /\ last.overlapped
    /\ cache.present
    /\ ~cache.result.isValid
    /\ cache.timestamp = clock
    /\ clock > 0

\* --------------------------------------------------------------------- C24
\* C24 as stated: the lastCheckedAt of an online result is the time at
\* which its validate() started.
C24_LastCheckedAtIsStartNow ==
    last.path = "ONLINE_CHECK" => last.result.lastCheckedAt = last.now

\* C24: the lastCheckedAt of an online result is the time at which the
\* answer of the remote call is handled; it is never before the start of the
\* validate(), and equals it only when no time has passed while the remote
\* call was in flight.
C24_LastCheckedAtIsAnswerTime ==
    last.path = "ONLINE_CHECK" =>
        /\ last.result.lastCheckedAt = clock
        /\ last.result.lastCheckedAt >= last.now
        /\ (last.result.lastCheckedAt = last.now) <=> (clock = last.now)

\* an online result of a call during whose remote call time has advanced
C24_Witness ==
    /\ last.path = "ONLINE_CHECK"
    /\ last.now < clock
    /\ last.result.lastCheckedAt = clock
    /\ last.result.lastCheckedAt > last.now

\* --------------------------------------------------------------------- C25
\* C25: with no other call in flight, a forceValidate() whose remote call
\* fails returns the NO_CACHE_OFFLINE result and leaves the cache empty,
\* whatever it held before; the cache stays empty until a remote call
\* succeeds, and every call whose remote call fails while it is empty
\* returns the invalid NO_CACHE_OFFLINE result.
C25_FailedForceValidateLeavesCacheEmpty ==
    /\ [](("result" \in DOMAIN last /\ last.op = "forceValidate" /\ Failed) =>
             /\ last.path = "NO_CACHE_OFFLINE"
             /\ last.result.reason = "network_error_no_cache"
             /\ ~last.result.isValid
             /\ last.seen = NoCache
             /\ cache = NoCache)
    /\ [](("result" \in DOMAIN last /\ Failed /\ cache = NoCache) =>
             /\ last.path = "NO_CACHE_OFFLINE"
             /\ ~last.result.isValid
             /\ ~Flag(last.result, "isGracePeriod"))
    /\ [][(cache = NoCache /\ cache' # NoCache) =>
             last'.path = "ONLINE_CHECK"]_vars
    /\ [][\A payload \in Payloads :
             Invoke("forceValidate", payload) => cache' = NoCache]_vars

\* a forceValidate() started after time 0 has failed: it is answered
\* NO_CACHE_OFFLINE and the cache is empty
C25_Witness ==
    /\ "result" \in DOMAIN last
    /\ last.op = "forceValidate"
    /\ Failed
    /\ last.now > 0
    /\ last.now < config.gracePeriod
    /\ last.path = "NO_CACHE_OFFLINE"
    /\ cache = NoCache
    /\ calls = EmptyBag

\* --------------------------------------------------------------------- C26
\* C26: with overlapping calls and clears, a result with isValid true is
\* either the online result of a verdict with is_valid true that the call
\* itself received, or an answer from the fresh cache or of the grace
\* period that rests on a stored online result with isValid true whose
\* timestamp T satisfies start - T < max(cacheTTL, gracePeriod); no valid
\* result comes from an empty cache after a failure or from a stored
\* invalid verdict.
C26_ValidityBackedByVerdict ==
    ("result" \in DOMAIN last /\ last.result.isValid) =>
        \/ /\ last.path = "ONLINE_CHECK"
           /\ last.response.is_valid
        \/ /\ last.path \in {"FRESH_CACHE", "GRACE_PERIOD"}
           /\ last.seen # NoCache
           /\ last.seen.result.isValid
           /\ ~Flag(last.seen.result, "isOffline")
           /\ ~Flag(last.seen.result, "isGracePeriod")
           /\ last.seen.result.error = NoError
           /\ last.now - last.seen.timestamp < Window

\* a valid result of the grace period that rests on a verdict which an
\* overlapping call stored after this call had started
C26_Witness ==
    /\ "result" \in DOMAIN last
    /\ last.result.isValid
    /\ last.path = "GRACE_PERIOD"
    /\ last.seen.result.isValid
    /\ last.seen.timestamp > last.now

====
